---- MODULE Spec2Model ----
(***************************************************************************)
(* Model of the indexing and retrieval pipeline of llm-target-determinator: *)
(*   get_tokens_from_directory.py  extraction, tests_only filter, chunking, *)
(*                                 the token cache, the directory scans     *)
(*   indexer.py / retriever.py     shard files, load_all, score aggregation *)
(* Strings are sequences of one-character strings, so that prefix tests,    *)
(* str.replace, glob patterns and lexicographic sorting are computed.       *)
(***************************************************************************)
EXTENDS Integers, Sequences, FiniteSets, TLC

VARIABLES fs, cache, last,
          scan, tasks, writes,
          assets, expdir, retriever, evaluation,
          unit, chunks

fileVars  == <<fs, cache, last>>
scanVars  == <<scan, tasks, writes>>
indexVars == <<assets, expdir, retriever, evaluation>>
chunkVars == <<unit, chunks>>
vars      == <<fs, cache, last, scan, tasks, writes,
               assets, expdir, retriever, evaluation, unit, chunks>>

(***************************************************************************)
(* Python values                                                           *)
(***************************************************************************)
\* repo_dir=None: no repository root (a Path is never the empty string).
None == <<>>

\* An empty dict / defaultdict(list).
EmptyDict == [k \in {} |-> <<>>]

\* d[k] = v on a dict: insert or overwrite.
DictPut(d, k, v) == [x \in (DOMAIN d) \cup {k} |-> IF x = k THEN v ELSE d[x]]

\* dict.update(other): other's entries win.
DictUpdate(d, other) ==
    [x \in (DOMAIN d) \cup (DOMAIN other) |->
        IF x \in DOMAIN other THEN other[x] ELSE d[x]]

\* What a lookup gives: None (found is FALSE) or the stored mapping.
Missing == [found |-> FALSE, value |-> EmptyDict]
Found(v) == [found |-> TRUE, value |-> v]

\* Truthiness of what a lookup gives: None and an empty mapping are falsy.
Truthy(r) == r.found /\ DOMAIN r.value # {}

Min(a, b) == IF a <= b THEN a ELSE b

(***************************************************************************)
(* str operations                                                          *)
(***************************************************************************)
StartsWith(s, p) == Len(s) >= Len(p) /\ SubSeq(s, 1, Len(p)) = p

EndsWith(s, p) == Len(s) >= Len(p) /\ SubSeq(s, Len(s) - Len(p) + 1, Len(s)) = p

\* p in s
Contains(s, p) == \E i \in 1..(Len(s) - Len(p) + 1) : SubSeq(s, i, i + Len(p) - 1) = p

\* s.replace(old, ""): every non-overlapping occurrence of old, scanning
\* from the left, is removed (old is not empty).
RECURSIVE StrRemoveAll(_, _)
StrRemoveAll(s, old) ==
    IF Len(s) < Len(old) THEN s
    ELSE IF SubSeq(s, 1, Len(old)) = old
         THEN StrRemoveAll(SubSeq(s, Len(old) + 1, Len(s)), old)
         ELSE <<Head(s)>> \o StrRemoveAll(Tail(s), old)

(***************************************************************************)
(* pathlib / os.path: a Path is held as its normalised string              *)
(***************************************************************************)
SLASH == <<"/">>

\* The components of a path string: the pieces between "/", with empty
\* pieces and "." dropped (PurePosixPath's parsing).
RECURSIVE SplitParts(_, _)
SplitParts(s, cur) ==
    IF s = <<>> THEN <<cur>>
    ELSE IF Head(s) = "/" THEN <<cur>> \o SplitParts(Tail(s), <<>>)
         ELSE SplitParts(Tail(s), Append(cur, Head(s)))

PathParts(s) ==
    SelectSeq(SplitParts(s, <<>>), LAMBDA c : c # <<>> /\ c # <<".">>)

RECURSIVE JoinParts(_)
JoinParts(parts) ==
    IF parts = <<>> THEN <<>>
    ELSE IF Len(parts) = 1 THEN parts[1]
         ELSE parts[1] \o SLASH \o JoinParts(Tail(parts))

\* Path(s), as str(Path(s)).
PathNew(s) ==
    IF s # <<>> /\ Head(s) = "/" THEN SLASH \o JoinParts(PathParts(s))
    ELSE IF PathParts(s) = <<>> THEN <<".">>
         ELSE JoinParts(PathParts(s))

\* Path.is_absolute()
IsAbsolute(p) == p # <<>> /\ Head(p) = "/"

\* a / b
PathJoin(a, b) == IF IsAbsolute(b) THEN b ELSE PathNew(a \o SLASH \o b)

\* os.path.join(root, file) for a file name
OsPathJoin(root, file) ==
    IF root = <<>> \/ EndsWith(root, SLASH) THEN root \o file
    ELSE root \o SLASH \o file

(***************************************************************************)
(* Source files: the tree ast.parse gives, or a syntax error               *)
(***************************************************************************)
\* A node: type is "FunctionDef", "ClassDef" or "If" (any other compound
\* statement); text is the node's source segment, as a sequence of words.
Node(type, name, lineno, end_lineno, text, body) ==
    [type |-> type, name |-> name, lineno |-> lineno,
     end_lineno |-> end_lineno, text |-> text, body |-> body]

\* What ast.parse makes of a file's text: the module's top-level nodes, or
\* SyntaxError when the text is not valid Python.
Source(body) == [parses |-> TRUE, body |-> body]
Malformed == [parses |-> FALSE, body |-> <<>>]

\* ast.walk: breadth first from the module, children in source order.
RECURSIVE AstWalk(_)
AstWalk(todo) ==
    IF todo = <<>> THEN <<>>
    ELSE <<Head(todo)>> \o AstWalk(Tail(todo) \o Head(todo).body)

\* _is_in_scope: an empty filter keeps everything; otherwise the unit is in
\* scope when some range is not entirely before or after it.
IsInScopeFirstRangeOnly(begin_lineno, end_lineno, selected_lines) ==
    \/ selected_lines = <<>>
    \/ ~(\/ end_lineno < selected_lines[1][1]
         \/ begin_lineno > selected_lines[1][2])

IsInScope(begin_lineno, end_lineno, selected_lines) ==
    \/ selected_lines = <<>>
    \/ \E i \in 1..Len(selected_lines) :
          ~(\/ end_lineno < selected_lines[i][1]
            \/ begin_lineno > selected_lines[i][2])

DOT == <<".">>

\* The inner loop over a class body (lines 55-59).
RECURSIVE VisitClassBody(_, _, _, _)
VisitClassBody(node, i, selected_lines, functions) ==
    IF i > Len(node.body) THEN functions
    ELSE LET sub_node == node.body[i] IN
         VisitClassBody(node, i + 1, selected_lines,
            IF /\ sub_node.type = "FunctionDef"
               /\ IsInScope(sub_node.lineno, sub_node.end_lineno, selected_lines)
            THEN DictPut(functions, node.name \o DOT \o sub_node.name, sub_node.text)
            ELSE functions)

\* The loop over ast.walk(module) (lines 45-59).
RECURSIVE VisitNodes(_, _, _)
VisitNodes(nodes, selected_lines, functions) ==
    IF nodes = <<>> THEN functions
    ELSE LET node == Head(nodes) IN
         VisitNodes(Tail(nodes), selected_lines,
            IF node.type = "FunctionDef"
            THEN IF ~IsInScope(node.lineno, node.end_lineno, selected_lines)
                 THEN functions
                 ELSE DictPut(functions, node.name, node.text)
            ELSE IF node.type = "ClassDef"
                 THEN VisitClassBody(node, 1, selected_lines, functions)
                 ELSE functions)

\* get_function_text_from_file on a file that parses: module is the
\* sequence of the module's top-level nodes.
GetFunctionTextFromFile(module, selected_lines) ==
    VisitNodes(AstWalk(module), selected_lines, EmptyDict)

(***************************************************************************)
(* Tokenizing and chunking (get_tokens_from_file, lines 95-113)            *)
(***************************************************************************)
MAX_TOKENS == 8292

\* PTTokenizer.encode: one token id per word of the text, in order (the
\* tokenizer is external; only the length and the order matter here).
ExtractTokensFromText(text) == [i \in 1..Len(text) |-> 2 * text[i] + 1]

\* torch.split(tokens, size, dim=1): consecutive pieces of `size` tokens,
\* the last one holding what is left.
TorchSplit(tokens, size) ==
    IF Len(tokens) = 0 THEN <<tokens>>
    ELSE [k \in 1..((Len(tokens) + size - 1) \div size) |->
            SubSeq(tokens, (k - 1) * size + 1, Min(k * size, Len(tokens)))]

\* Lines 108-112 with the split left out: always one chunk.
ChunkTokensNoSplit(tokens) == <<tokens>>

\* Lines 108-112.
ChunkTokens(tokens) ==
    IF Len(tokens) >= MAX_TOKENS THEN TorchSplit(tokens, MAX_TOKENS)
    ELSE <<tokens>>

TEST == <<"t", "e", "s", "t">>
DOT_TEST_ == <<".", "t", "e", "s", "t", "_">>

\* re.match(r".*\.test_.*", name): ".test_" somewhere, with no newline
\* before it.
ReMatchDotTest(name) ==
    \E i \in 1..(Len(name) - Len(DOT_TEST_) + 1) :
        /\ SubSeq(name, i, i + Len(DOT_TEST_) - 1) = DOT_TEST_
        /\ \A j \in 1..(i - 1) : name[j] # "\n"

\* The condition of lines 97-101: the unit is skipped.
SkipUnit(tests_only, function_name) ==
    /\ tests_only
    /\ ~StartsWith(function_name, TEST)
    /\ ~ReMatchDotTest(function_name)

COLON == <<":">>

\* The key of line 113.
UnitKey(file_path, function_name) == file_path \o COLON \o function_name

\* The loop of lines 95-113 over functions.items().
RECURSIVE TokenizeFunctions(_, _, _, _, _)
TokenizeFunctions(functions, todo, file_path, tests_only, all_file_tokens) ==
    IF todo = {} THEN all_file_tokens
    ELSE LET function_name == CHOOSE n \in todo : TRUE IN
         TokenizeFunctions(functions, todo \ {function_name}, file_path, tests_only,
            IF SkipUnit(tests_only, function_name) THEN all_file_tokens
            ELSE DictPut(all_file_tokens, UnitKey(file_path, function_name),
                         ChunkTokens(ExtractTokensFromText(functions[function_name]))))

\* Lines 93-113 for a file that parses.
ComputeFileTokens(module, file_path, tests_only, selected_lines) ==
    LET functions == GetFunctionTextFromFile(module, selected_lines) IN
    TokenizeFunctions(functions, DOMAIN functions, file_path, tests_only, EmptyDict)

(***************************************************************************)
(* TensorCache (cache_data.py): a store keyed by the relative path         *)
(***************************************************************************)
\* get_cache_data: the stored value, or None when there is no entry.
GetCacheData(c, key) == IF key \in DOMAIN c THEN Found(c[key]) ELSE Missing

\* save_cache_data: always overwrites.
SaveCacheData(c, key, value) == DictPut(c, key, value)

\* Line 87: Path(str(file_path).replace(str(repo_dir), "")).
RelativeFilePath(file_path, repo_dir) == PathNew(StrRemoveAll(file_path, repo_dir))

\* Line 89: `cache and cache.get_cache_data(relative_file_path)`.
IsCacheHit(c, file_path, repo_dir) ==
    /\ repo_dir # None
    /\ Truthy(GetCacheData(c, RelativeFilePath(file_path, repo_dir)))

\* get_tokens_from_file as one call: what it returns or raises, the cache
\* it leaves, and whether it ran extraction and tokenization.
GetTokensFromFile(c, content, file_path, repo_dir, tests_only, selected_lines) ==
    IF IsCacheHit(c, file_path, repo_dir)
    THEN [outcome |-> "return",
          value |-> GetCacheData(c, RelativeFilePath(file_path, repo_dir)).value,
          cache |-> c, hit |-> TRUE, extracted |-> FALSE, saved |-> FALSE]
    ELSE IF ~content.parses
    THEN [outcome |-> "SyntaxError", value |-> EmptyDict,
          cache |-> c, hit |-> FALSE, extracted |-> FALSE, saved |-> FALSE]
    ELSE LET all_file_tokens ==
                 ComputeFileTokens(content.body, file_path, tests_only, selected_lines) IN
         [outcome |-> "return", value |-> all_file_tokens,
          cache |-> IF repo_dir # None
                    THEN SaveCacheData(c, RelativeFilePath(file_path, repo_dir),
                                       all_file_tokens)
                    ELSE c,
          hit |-> FALSE, extracted |-> TRUE, saved |-> repo_dir # None]

(***************************************************************************)
(* The files of the model                                                  *)
(***************************************************************************)
N_test_foo == <<"t", "e", "s", "t", "_", "f", "o", "o">>
N_test_bar == <<"t", "e", "s", "t", "_", "b", "a", "r">>
N_testBar  == <<"t", "e", "s", "t", "B", "a", "r">>
N_helper   == <<"h", "e", "l", "p", "e", "r">>
N_inner    == <<"i", "n", "n", "e", "r">>
N_setUp    == <<"s", "e", "t", "U", "p">>
N_C        == <<"C">>

Fn(name, lineno, end_lineno, text, body) ==
    Node("FunctionDef", name, lineno, end_lineno, text, body)

\* def test_foo (1-3), def helper (5-9), class C (12-25): def test_bar (15-25)
AstExample ==
    Source(<< Fn(N_test_foo, 1, 3, <<1, 2>>, <<>>),
              Fn(N_helper, 5, 9, <<3>>, <<>>),
              Node("ClassDef", N_C, 12, 25, <<4, 5>>,
                   << Fn(N_test_bar, 15, 25, <<5>>, <<>>) >>) >>)

\* No test at all: def helper (1-3), class C (5-9): def setUp (6-9)
AstHelpers ==
    Source(<< Fn(N_helper, 1, 3, <<3>>, <<>>),
              Node("ClassDef", N_C, 5, 9, <<6, 7>>,
                   << Fn(N_setUp, 6, 9, <<7>>, <<>>) >>) >>)

\* A nested function, a function under an `if`, and a camel-case method:
\* def test_foo (1-9): def inner (2-3); if (10-14): def helper (11-12);
\* class C (15-25): def testBar (16-18), def test_bar (20-25)
AstNested ==
    Source(<< Fn(N_test_foo, 1, 9, <<1, 8>>, << Fn(N_inner, 2, 3, <<8>>, <<>>) >>),
              Node("If", <<>>, 10, 14, <<9, 3>>,
                   << Fn(N_helper, 11, 12, <<3>>, <<>>) >>),
              Node("ClassDef", N_C, 15, 25, <<4, 6, 5>>,
                   << Fn(N_testBar, 16, 18, <<6>>, <<>>),
                      Fn(N_test_bar, 20, 25, <<5>>, <<>>) >>) >>)

Contents == {AstExample, AstHelpers, AstNested, Malformed}

\* The repository root /r and the file /r/t.py.
REPO == <<"/", "r">>
FILE_A == <<"/", "r", "/", "t", ".", "p", "y">>
FilePaths == {FILE_A}

\* Scope filters: up to MaxRanges inclusive line ranges.
MaxRanges == 2
Ranges == {<<10, 20>>, <<4, 4>>}
ScopeFilters == UNION {[1..n -> Ranges] : n \in 0..MaxRanges}

(***************************************************************************)
(* State of the parts a specification leaves alone                         *)
(***************************************************************************)
NoCall == [file_path |-> <<>>, repo_dir |-> None, tests_only |-> FALSE,
           selected_lines |-> <<>>, before |-> Missing, outcome |-> "none",
           value |-> EmptyDict, hit |-> FALSE, extracted |-> FALSE,
           saved |-> FALSE]

FileIdle == fs = EmptyDict /\ cache = EmptyDict /\ last = NoCall
ScanIdle == scan = <<>> /\ tasks = <<>> /\ writes = {}
IndexIdle ==
    assets = EmptyDict /\ expdir = EmptyDict /\ retriever = <<>> /\ evaluation = <<>>
ChunkIdle == unit = <<>> /\ chunks = <<>>

(***************************************************************************)
(* Spec: calls of get_tokens_from_file on the files of one repository,     *)
(* sharing the cache                                                       *)
(***************************************************************************)
Init ==
    /\ fs \in [FilePaths -> Contents]
    /\ cache = EmptyDict
    /\ last = NoCall
    /\ ScanIdle /\ IndexIdle /\ ChunkIdle

\* One call get_tokens_from_file(file_path, repo_dir, tests_only, selected_lines).
CallGetTokensFromFile(file_path, repo_dir, tests_only, selected_lines) ==
    LET r == GetTokensFromFile(cache, fs[file_path], file_path, repo_dir,
                               tests_only, selected_lines) IN
    /\ cache' = r.cache
    /\ last' = [file_path |-> file_path, repo_dir |-> repo_dir,
                tests_only |-> tests_only, selected_lines |-> selected_lines,
                before |-> IF repo_dir = None THEN Missing
                           ELSE GetCacheData(cache, RelativeFilePath(file_path, repo_dir)),
                outcome |-> r.outcome, value |-> r.value, hit |-> r.hit,
                extracted |-> r.extracted, saved |-> r.saved]
    /\ UNCHANGED <<fs, scanVars, indexVars, chunkVars>>

Next ==
    \E file_path \in FilePaths, repo_dir \in {None, REPO},
       tests_only \in BOOLEAN, selected_lines \in ScopeFilters :
        CallGetTokensFromFile(file_path, repo_dir, tests_only, selected_lines)

Spec == Init /\ [][Next]_vars

(***************************************************************************)
(* Claims about get_tokens_from_file (checked under Spec)                  *)
(***************************************************************************)
\* The nodes of a tree, at any depth.
RECURSIVE NodesOf(_)
NodesOf(body) ==
    IF body = <<>> THEN {}
    ELSE {Head(body)} \cup NodesOf(Head(body).body) \cup NodesOf(Tail(body))

SeqRange(q) == {q[i] : i \in 1..Len(q)}

\* The last call ran extraction on a file that parses (a cache miss, or no
\* cache) and returned.
LastCallExtracted == last.outcome = "return" /\ last.extracted

\* The units the claim C1 names: the test-named top-level functions, under
\* their own name, and the test methods of the top-level classes, under
\* Class.name.
TestNamed(qualified_name) ==
    StartsWith(qualified_name, TEST) \/ ReMatchDotTest(qualified_name)

TopLevelTestUnits(body) ==
    {n.name : n \in {m \in SeqRange(body) :
                        m.type = "FunctionDef" /\ StartsWith(m.name, TEST)}}
    \cup UNION {
           {c.name \o DOT \o m.name :
                m \in {k \in SeqRange(c.body) :
                          /\ k.type = "FunctionDef"
                          /\ TestNamed(c.name \o DOT \o k.name)}} :
           c \in {d \in SeqRange(body) : d.type = "ClassDef"}}

\* C1: a call with tests_only=True and an empty scope filter that misses the
\* cache returns exactly one unit per test-named top-level function and one
\* per test method (keyed file:Class.name), and no other key.
C1_TestsOnlyExactlyTestUnits ==
    (LastCallExtracted /\ last.tests_only /\ last.selected_lines = <<>>)
    => DOMAIN last.value =
          {UnitKey(last.file_path, q) :
              q \in TopLevelTestUnits(fs[last.file_path].body)}

\* C2: once the cache holds an entry for the file's relative path, every
\* later call for that path is a hit: it runs no extraction or tokenization
\* and returns the stored mapping, also when that mapping has zero units.
C2_StoredEntryIsAlwaysHit ==
    (last.outcome # "none" /\ last.repo_dir # None /\ last.before.found)
    => /\ last.outcome = "return"
       /\ last.hit
       /\ ~last.extracted
       /\ last.value = last.before.value

\* The overlap rule of the claim C9, on inclusive ranges.
Overlaps(begin, end, filter) ==
    \/ filter = <<>>
    \/ \E i \in 1..Len(filter) : end >= filter[i][1] /\ begin <= filter[i][2]

\* The code units of a file with the names extraction gives them: every
\* function under its own name, every function of a class body under
\* Class.name.
CodeUnits(body) ==
    {<<n.name, n>> : n \in {m \in NodesOf(body) : m.type = "FunctionDef"}}
    \cup UNION {
           {<<c.name \o DOT \o m.name, m>> :
                m \in {k \in SeqRange(c.body) : k.type = "FunctionDef"}} :
           c \in {d \in NodesOf(body) : d.type = "ClassDef"}}

KeptUnits(body, tests_only, filter) ==
    {u \in CodeUnits(body) :
        /\ Overlaps(u[2].lineno, u[2].end_lineno, filter)
        /\ ~SkipUnit(tests_only, u[1])}

\* C9: a unit with lines [begin, end] is kept by the scope filter iff the
\* filter is empty or [begin, end] overlaps one of its ranges; an excluded
\* unit is dropped entirely, a kept one comes with its whole text.
C9_ScopeFilterKeepsOverlapping ==
    LastCallExtracted
    => LET kept == KeptUnits(fs[last.file_path].body, last.tests_only,
                             last.selected_lines) IN
       /\ DOMAIN last.value = {UnitKey(last.file_path, u[1]) : u \in kept}
       /\ \A key \in DOMAIN last.value :
             \E u \in kept :
                /\ key = UnitKey(last.file_path, u[1])
                /\ last.value[key] = ChunkTokens(ExtractTokensFromText(u[2].text))

\* C9 witness: filter [(10,20)] on the file with units at (1,3), (5,9) and
\* (15,25): the first two are excluded, the third is included.
C9_Witness ==
    /\ LastCallExtracted
    /\ ~last.tests_only
    /\ last.selected_lines = << <<10, 20>> >>
    /\ fs[last.file_path] = AstExample
    /\ UnitKey(last.file_path, N_C \o DOT \o N_test_bar) \in DOMAIN last.value
    /\ UnitKey(last.file_path, N_test_foo) \notin DOMAIN last.value
    /\ UnitKey(last.file_path, N_helper) \notin DOMAIN last.value

\* The unit name of a key "{file_path}:{qualified_name}": what follows the
\* first colon (no file path of the model holds one).
UnitNameOfKey(key) ==
    LET colons == {i \in 1..Len(key) : key[i] = COLON[1]} IN
    IF colons = {} THEN key
    ELSE LET first == CHOOSE i \in colons : \A j \in colons : i <= j IN
         SubSeq(key, first + 1, Len(key))

\* C11: after any earlier calls sharing the cache, with any tests_only values
\* and scope filters, a call with tests_only=True returns a mapping in which
\* every key's unit name starts with "test" or matches <anything>.test_<anything>,
\* on a cache hit as on a miss.
C11_TestsOnlyHoldsOnCacheHits ==
    (last.outcome = "return" /\ last.tests_only)
    => \A key \in DOMAIN last.value : TestNamed(UnitNameOfKey(key))

(***************************************************************************)
(* SpecChunk: tokenizing and chunking one unit's text (lines 106-113),     *)
(* for texts whose token count lies around the multiples of MAX_TOKENS     *)
(***************************************************************************)
MaxChunks == 2
MaxSlack  == 2
MaxSeed   == 5

UnitLengths ==
    {n \in {k * MAX_TOKENS + d : k \in 0..MaxChunks, d \in (0 - MaxSlack)..MaxSlack} :
        n >= 0}

\* A text of n words.
UnitText(n, seed) == [i \in 1..n |-> (i * seed) % 7]

NotChunked == [done |-> FALSE, value |-> <<>>]

InitChunk ==
    /\ unit \in {UnitText(n, seed) : n \in UnitLengths, seed \in 1..MaxSeed}
    /\ chunks = NotChunked
    /\ FileIdle /\ ScanIdle /\ IndexIdle

\* Lines 106-113 for one unit.
TokenizeUnit ==
    /\ ~chunks.done
    /\ chunks' = [done |-> TRUE, value |-> ChunkTokens(ExtractTokensFromText(unit))]
    /\ UNCHANGED <<unit, fileVars, scanVars, indexVars>>

NextChunk == TokenizeUnit

SpecChunk == InitChunk /\ [][NextChunk]_vars

RECURSIVE Flatten(_)
Flatten(seqs) == IF seqs = <<>> THEN <<>> ELSE Head(seqs) \o Flatten(Tail(seqs))

\* C8: fewer than MAX_TOKENS tokens give one chunk, the whole sequence;
\* otherwise the chunks are consecutive, each of exactly MAX_TOKENS tokens
\* except possibly the last, which is not empty; the chunks joined in order
\* are the token sequence, and no chunk is longer than MAX_TOKENS.
C8_ChunksPartitionTokens ==
    chunks.done
    => LET tokens == ExtractTokensFromText(unit)
           c == chunks.value IN
       /\ Len(tokens) < MAX_TOKENS => c = <<tokens>>
       /\ Len(tokens) >= MAX_TOKENS =>
             /\ \A k \in 1..(Len(c) - 1) : Len(c[k]) = MAX_TOKENS
             /\ Len(c[Len(c)]) \in 1..MAX_TOKENS
       /\ Flatten(c) = tokens
       /\ \A k \in 1..Len(c) : Len(c[k]) <= MAX_TOKENS

\* C8 witness: a unit of more than MAX_TOKENS tokens, split into full
\* chunks and a shorter last one.
C8_Witness ==
    /\ chunks.done
    /\ Len(unit) > MAX_TOKENS
    /\ Len(chunks.value) >= 2
    /\ Len(chunks.value[1]) = MAX_TOKENS
    /\ Len(chunks.value[Len(chunks.value)]) < MAX_TOKENS

(***************************************************************************)
(* Directory scans: get_effective_directory, should_process_file,          *)
(* get_tokens_from_directory and its multiprocessing variant               *)
(***************************************************************************)
TILDE == <<"~">>
DOT_PY == <<".", "p", "y">>
THIRD_PARTY == <<"t", "h", "i", "r", "d", "_", "p", "a", "r", "t", "y">>

Ok(directory) == [raised |-> "none", directory |-> directory]
Raise(exception) == [raised |-> exception, directory |-> <<>>]

\* get_effective_directory. repo_dir is a Path (line 127 calls its
\* is_absolute), so on line 132 str.startswith is given a Path and raises
\* TypeError, whatever the directory.
GetEffectiveDirectory(repo_dir, directory) ==
    IF repo_dir # None
    THEN IF ~IsAbsolute(repo_dir) THEN Raise("Exception")
         ELSE IF IsAbsolute(directory) THEN Raise("TypeError")
         ELSE IF StartsWith(directory, TILDE) THEN Raise("Exception")
         ELSE Ok(PathJoin(repo_dir, directory))
    ELSE Ok(directory)

\* should_process_file
ShouldProcessFile(file, root, desired_file_prefix) ==
    /\ EndsWith(file, DOT_PY)
    /\ StartsWith(file, desired_file_prefix)
    /\ ~Contains(root, THIRD_PARTY)

\* The working directory of the process: relative paths resolve under it.
CWD == REPO
Resolve(p) == IF IsAbsolute(p) THEN PathNew(p) ELSE PathNew(CWD \o SLASH \o p)

\* os.walk(top) for one file of the tree (given by its absolute path): the
\* (root, file) pair it is listed under, root spelled from top as os.walk
\* spells it. found is FALSE when the file is not under top.
WalkEntry(top, abs_file) ==
    LET tp == PathParts(Resolve(top))
        fp == PathParts(abs_file)
        dp == SubSeq(fp, 1, Len(fp) - 1) IN
    IF Len(dp) >= Len(tp) /\ SubSeq(dp, 1, Len(tp)) = tp
    THEN [found |-> TRUE,
          root |-> IF Len(dp) = Len(tp) THEN top
                   ELSE OsPathJoin(top, JoinParts(SubSeq(dp, Len(tp) + 1, Len(dp)))),
          file |-> fp[Len(fp)]]
    ELSE [found |-> FALSE, root |-> <<>>, file |-> <<>>]

\* The file paths the walk loops of lines 169-172 / 189-193 select.
SelectedFiles(tree, directory, file_prefix) ==
    {OsPathJoin(WalkEntry(directory, f).root, WalkEntry(directory, f).file) :
        f \in {g \in tree :
                 /\ WalkEntry(directory, g).found
                 /\ ShouldProcessFile(WalkEntry(directory, g).file,
                                      WalkEntry(directory, g).root, file_prefix)}}

\* The orders a walk can list a set of files in (the listing order of a
\* directory is the file system's).
Orders(S) ==
    {q \in [1..Cardinality(S) -> S] : \A i, j \in 1..Cardinality(S) : q[i] = q[j] => i = j}

\* The files a scanned tree is drawn from.
FILE_RR == <<"/", "r", "/", "r", "/", "t", ".", "p", "y">>
FILE_DU == <<"/", "r", "/", "d", "/", "u", ".", "p", "y">>
FILE_TXT == <<"/", "r", "/", "d", "/", "t", ".", "t", "x", "t">>
FILE_TP == <<"/", "r", "/", "t", "h", "i", "r", "d", "_", "p", "a", "r", "t", "y", "/", "t", ".", "p", "y">>
ScanUniverse == {FILE_A, FILE_RR, FILE_DU, FILE_TXT, FILE_TP}
ScanContents == {AstExample, Malformed}
MaxFiles == 3

\* The arguments of a scan.
ScanRepoDirs == {None, REPO, <<"r">>}
ScanDirectories ==
    { <<".">>, <<"d">>, <<"/", "r", "/", "d">>, <<"/", "x">>, <<"~", "/", "d">> }
ScanPrefixes == { <<>>, <<"t">> }

NoScan == [pc |-> "idle", mode |-> "none", repo_dir |-> None, directory |-> <<>>,
           file_prefix |-> <<>>, tests_only |-> TRUE, effective |-> <<>>,
           files |-> <<>>, i |-> 1, all_tokens |-> EmptyDict,
           outcome |-> "none", failed |-> {}, touched |-> FALSE]

InitScan ==
    /\ \E tree \in {S \in SUBSET ScanUniverse : Cardinality(S) \in 1..MaxFiles} :
          fs \in [tree -> ScanContents]
    /\ cache = EmptyDict
    /\ last = NoCall
    /\ scan = NoScan
    /\ tasks = <<>>
    /\ writes = {}
    /\ IndexIdle /\ ChunkIdle

\* The start of either scan: get_effective_directory, then the walk
\* (lines 166-172, 186-195). A configuration error ends the scan at once.
StartScan(mode, directory, repo_dir, file_prefix, tests_only) ==
    /\ scan.pc = "idle"
    /\ LET e == GetEffectiveDirectory(repo_dir, directory) IN
       IF e.raised # "none"
       THEN /\ scan' = [scan EXCEPT !.pc = "done", !.mode = mode,
                           !.repo_dir = repo_dir, !.directory = directory,
                           !.file_prefix = file_prefix, !.tests_only = tests_only,
                           !.outcome = e.raised]
            /\ tasks' = tasks
       ELSE \E files \in Orders(SelectedFiles(DOMAIN fs, e.directory, file_prefix)) :
            /\ scan' = [scan EXCEPT !.pc = IF mode = "seq" THEN "walk" ELSE "pool",
                           !.mode = mode,
                           !.repo_dir = repo_dir, !.directory = directory,
                           !.file_prefix = file_prefix, !.tests_only = tests_only,
                           !.effective = e.directory, !.files = files]
            /\ tasks' = IF mode = "seq" THEN tasks
                        ELSE [t \in 1..Len(files) |->
                                [file |-> files[t], pc |-> "start",
                                 value |-> EmptyDict]]
    /\ UNCHANGED <<fs, cache, last, writes, indexVars, chunkVars>>

\* get_tokens_from_directory, one turn of the loop (lines 170-177): an
\* exception of get_tokens_from_file leaves the loop and the function.
ScanNextFile ==
    /\ scan.pc = "walk"
    /\ scan.i <= Len(scan.files)
    /\ LET file_path == scan.files[scan.i]
           r == GetTokensFromFile(cache, fs[Resolve(file_path)], file_path,
                                  scan.repo_dir, scan.tests_only, <<>>) IN
       /\ cache' = r.cache
       /\ writes' = IF r.saved
                    THEN writes \cup {[key |-> RelativeFilePath(file_path, scan.repo_dir),
                                       file |-> file_path]}
                    ELSE writes
       /\ scan' = IF r.outcome = "return"
                  THEN [scan EXCEPT !.i = @ + 1, !.touched = TRUE,
                                    !.all_tokens = DictUpdate(@, r.value)]
                  ELSE [scan EXCEPT !.pc = "done", !.touched = TRUE,
                                    !.outcome = r.outcome,
                                    !.failed = @ \cup {file_path}]
    /\ UNCHANGED <<fs, last, tasks, indexVars, chunkVars>>

\* get_tokens_from_directory returns (lines 178-180, output_file=None).
ScanReturn ==
    /\ scan.pc = "walk"
    /\ scan.i > Len(scan.files)
    /\ scan' = [scan EXCEPT !.pc = "done", !.outcome = "return"]
    /\ UNCHANGED <<fs, cache, last, tasks, writes, indexVars, chunkVars>>

\* A pool worker runs process_file for task t: the cache check of
\* get_tokens_from_file (lines 84-91).
TaskCheckCache(t) ==
    /\ scan.pc = "pool"
    /\ tasks[t].pc = "start"
    /\ tasks' = [tasks EXCEPT ![t] =
                   IF IsCacheHit(cache, tasks[t].file, scan.repo_dir)
                   THEN [tasks[t] EXCEPT !.pc = "done",
                            !.value = GetCacheData(cache,
                                        RelativeFilePath(tasks[t].file, scan.repo_dir)).value]
                   ELSE [tasks[t] EXCEPT !.pc = "extract"]]
    /\ scan' = [scan EXCEPT !.touched = TRUE]
    /\ UNCHANGED <<fs, cache, last, writes, indexVars, chunkVars>>

\* Extraction and tokenization in the worker (lines 93-113); a file that
\* does not parse makes the task fail.
TaskExtract(t) ==
    /\ scan.pc = "pool"
    /\ tasks[t].pc = "extract"
    /\ LET content == fs[Resolve(tasks[t].file)] IN
       IF content.parses
       THEN /\ tasks' = [tasks EXCEPT ![t] =
                           [tasks[t] EXCEPT !.pc = "save",
                                !.value = ComputeFileTokens(content.body, tasks[t].file,
                                                            scan.tests_only, <<>>)]]
            /\ scan' = scan
       ELSE /\ tasks' = [tasks EXCEPT ![t] = [@ EXCEPT !.pc = "failed"]]
            /\ scan' = [scan EXCEPT !.failed = @ \cup {tasks[t].file}]
    /\ UNCHANGED <<fs, cache, last, writes, indexVars, chunkVars>>

\* The worker saves the file's mapping and returns it (lines 116-118).
TaskSave(t) ==
    /\ scan.pc = "pool"
    /\ tasks[t].pc = "save"
    /\ tasks' = [tasks EXCEPT ![t] = [@ EXCEPT !.pc = "done"]]
    /\ IF scan.repo_dir # None
       THEN /\ cache' = SaveCacheData(cache,
                           RelativeFilePath(tasks[t].file, scan.repo_dir), tasks[t].value)
            /\ writes' = writes \cup
                           {[key |-> RelativeFilePath(tasks[t].file, scan.repo_dir),
                             file |-> tasks[t].file]}
       ELSE UNCHANGED <<cache, writes>>
    /\ UNCHANGED <<fs, last, scan, indexVars, chunkVars>>

\* The results of the tasks merged in task order (lines 199-201).
RECURSIVE MergeResults(_, _, _)
MergeResults(results, t, all_tokens) ==
    IF t > Len(results) THEN all_tokens
    ELSE MergeResults(results, t + 1, DictUpdate(all_tokens, results[t].value))

\* pool.starmap returns once every task has ended; it re-raises a task's
\* exception if one failed, and the results of the others are not returned
\* (lines 197-205).
PoolJoin ==
    /\ scan.pc = "pool"
    /\ \A t \in 1..Len(tasks) : tasks[t].pc \in {"done", "failed"}
    /\ scan' = IF \E t \in 1..Len(tasks) : tasks[t].pc = "failed"
               THEN [scan EXCEPT !.pc = "done", !.outcome = "SyntaxError"]
               ELSE [scan EXCEPT !.pc = "done", !.outcome = "return",
                                 !.all_tokens = MergeResults(tasks, 1, EmptyDict)]
    /\ UNCHANGED <<fs, cache, last, tasks, writes, indexVars, chunkVars>>

NextScan ==
    \/ \E mode \in {"seq", "mp"}, directory \in ScanDirectories,
          repo_dir \in ScanRepoDirs, file_prefix \in ScanPrefixes :
           StartScan(mode, directory, repo_dir, file_prefix, TRUE)
    \/ ScanNextFile
    \/ ScanReturn
    \/ \E t \in 1..Len(tasks) : TaskCheckCache(t)
    \/ \E t \in 1..Len(tasks) : TaskExtract(t)
    \/ \E t \in 1..Len(tasks) : TaskSave(t)
    \/ PoolJoin

SpecScan == InitScan /\ [][NextScan]_vars

(***************************************************************************)
(* Claims about the directory scans (checked under SpecScan)               *)
(***************************************************************************)
\* C3: the files the worker pool processes are distinct files under the
\* repository root, and no two workers save under the same cache key.
C3_NoTwoWorkersWriteSameKey ==
    scan.mode = "mp"
    => \A w1, w2 \in writes : w1.key = w2.key => w1.file = w2.file

\* The keys extraction gives a file that parses.
FileUnitKeys(file_path) ==
    DOMAIN ComputeFileTokens(fs[Resolve(file_path)].body, file_path,
                             scan.tests_only, <<>>)

\* C4: when a file of the scan fails, the scan still returns, and the units
\* of every other selected file are in the mapping it returns.
C4_FailedFileDoesNotAbortScan ==
    (scan.pc = "done" /\ scan.failed # {})
    => /\ scan.outcome = "return"
       /\ \A f \in SeqRange(scan.files) \ scan.failed :
             FileUnitKeys(f) \subseteq DOMAIN scan.all_tokens

\* C4, for each of the two scans alone.
C4_Sequential == scan.mode = "seq" => C4_FailedFileDoesNotAbortScan
C4_Multiprocessing == scan.mode = "mp" => C4_FailedFileDoesNotAbortScan

\* directory is repo_dir or lies under it.
IsSubdirectory(directory, repo_dir) ==
    /\ Len(PathParts(directory)) >= Len(PathParts(repo_dir))
    /\ SubSeq(PathParts(directory), 1, Len(PathParts(repo_dir))) = PathParts(repo_dir)

\* The whole of C10: with a repository root given, the scan fails with a configuration
\* error, before any file is parsed or any cache entry is touched, exactly
\* when the root is not absolute or the directory is absolute and not under
\* the root; otherwise a relative directory is resolved to
\* repo_dir/directory and an absolute one under the root is taken as it is.
C10_WholeClaim ==
    (scan.pc # "idle" /\ scan.repo_dir # None)
    => LET bad == \/ ~IsAbsolute(scan.repo_dir)
                  \/ /\ IsAbsolute(scan.directory)
                     /\ ~IsSubdirectory(scan.directory, scan.repo_dir) IN
       /\ bad => scan.outcome \in {"Exception", "TypeError"} /\ ~scan.touched
       /\ ~bad => /\ scan.outcome \notin {"Exception", "TypeError"}
                  /\ scan.effective = IF IsAbsolute(scan.directory)
                                      THEN scan.directory
                                      ELSE PathJoin(scan.repo_dir, scan.directory)

\* C10, its last part: with an absolute repository root, an absolute scan
\* directory under the root is accepted unchanged (the scan does not fail
\* in get_effective_directory and walks that directory).
C10_AbsoluteUnderRootAccepted ==
    (/\ scan.pc # "idle" /\ scan.repo_dir # None /\ IsAbsolute(scan.repo_dir)
     /\ IsAbsolute(scan.directory)
     /\ IsSubdirectory(scan.directory, scan.repo_dir))
    => /\ scan.outcome \notin {"Exception", "TypeError"}
       /\ scan.effective = scan.directory

(***************************************************************************)
(* Index shards: Indexer.save_index and Retriever.__init__                 *)
(***************************************************************************)
\* The characters of the shard file names, in code point order (the order
\* sorted() compares strings by).
CharOrder == <<".", "0", "1", "2", "3", "4", "5", "6", "7", "8", "9", "_",
               "a", "b", "c", "d", "e", "f", "g", "h", "i", "j", "k", "l", "m",
               "n", "o", "p", "q", "r", "s", "t", "u", "v", "w", "x", "y", "z">>
Ord(c) == CHOOSE i \in 1..Len(CharOrder) : CharOrder[i] = c

\* a < b on strings.
RECURSIVE StrLess(_, _)
StrLess(a, b) ==
    IF a = <<>> THEN b # <<>>
    ELSE IF b = <<>> THEN FALSE
    ELSE IF Head(a) = Head(b) THEN StrLess(Tail(a), Tail(b))
    ELSE Ord(Head(a)) < Ord(Head(b))

\* sorted(S), descending: the reverse of the order line 107 asks for.
RECURSIVE SortedDescending(_)
SortedDescending(S) ==
    IF S = {} THEN <<>>
    ELSE LET hi == CHOOSE x \in S : \A y \in S \ {x} : StrLess(y, x) IN
         <<hi>> \o SortedDescending(S \ {hi})

\* sorted(S) for a list of distinct strings.
RECURSIVE Sorted(_)
Sorted(S) ==
    IF S = {} THEN <<>>
    ELSE LET lo == CHOOSE x \in S : \A y \in S \ {x} : StrLess(x, y) IN
         <<lo>> \o Sorted(S \ {lo})

\* str(n) for n >= 0.
Digits == <<"0", "1", "2", "3", "4", "5", "6", "7", "8", "9">>
RECURSIVE IntToStr(_)
IntToStr(n) ==
    IF n < 10 THEN <<Digits[n + 1]>>
    ELSE IntToStr(n \div 10) \o <<Digits[(n % 10) + 1]>>

\* glob of a pattern prefix*suffix over the file names of a directory.
Glob(dir, prefix, suffix) ==
    {name \in DOMAIN dir :
        /\ Len(name) >= Len(prefix) + Len(suffix)
        /\ StartsWith(name, prefix)
        /\ EndsWith(name, suffix)}

UNITTEST_INDEX_ == <<"u", "n", "i", "t", "t", "e", "s", "t", "_", "i", "n", "d", "e", "x", "_">>
UNITTEST_INDEX_MAPPING_ == <<"u", "n", "i", "t", "t", "e", "s", "t", "_", "i", "n", "d", "e", "x", "_", "m", "a", "p", "p", "i", "n", "g", "_">>
DOT_PT == <<".", "p", "t">>
DOT_JSON == <<".", "j", "s", "o", "n">>
UNDERSCORE == <<"_">>

\* The two file names of save_index (lines 103 and 107).
EmbeddingsFileName(rand, local_rank) ==
    UNITTEST_INDEX_ \o IntToStr(rand) \o UNDERSCORE \o IntToStr(local_rank) \o DOT_PT

MappingFileName(rand, local_rank) ==
    UNITTEST_INDEX_MAPPING_ \o IntToStr(rand) \o UNDERSCORE \o IntToStr(local_rank)
        \o DOT_JSON

\* The values of rand (a hash of the time of the call) and of the rank.
Rands == {1, 2, 12}
Ranks == {1, 10}
\* The function lists a shard is saved with (test names; a name repeats
\* when a unit has several rows).
FunctionLists == { <<"A">>, <<"A", "B">>, <<"A", "A", "B">> }
MaxShards == 2

\* The embeddings saved with a function list: one row per function, each
\* row a vector of its own (named by the shard and the row).
ShardEmbeddings(rand, local_rank, function_list) ==
    [row \in 1..Len(function_list) |-> <<rand, local_rank, row>>]

NotLoaded == [status |-> "none", embeddings |-> <<>>, unittest_names |-> <<>>,
              pairs |-> <<>>, nvec |-> 0, nmap |-> 0]
NotEvaluated == [status |-> "none", queries |-> <<>>, mapping |-> EmptyDict]

InitIndex ==
    /\ assets = EmptyDict
    /\ expdir = EmptyDict
    /\ retriever = NotLoaded
    /\ evaluation = NotEvaluated
    /\ FileIdle /\ ScanIdle /\ ChunkIdle

\* Indexer.save_index: the vector block and the mapping document of one
\* shard, under names that share rand and the rank. (rand hashes the time
\* of the call: no two saves of a rank share it.)
SaveIndex(rand, local_rank, function_list) ==
    /\ retriever.status = "none"
    /\ Cardinality(DOMAIN assets) < 2 * MaxShards
    /\ EmbeddingsFileName(rand, local_rank) \notin DOMAIN assets
    /\ assets' = DictPut(DictPut(assets, EmbeddingsFileName(rand, local_rank),
                                 ShardEmbeddings(rand, local_rank, function_list)),
                         MappingFileName(rand, local_rank), function_list)
    /\ UNCHANGED <<expdir, retriever, evaluation, fileVars, scanVars, chunkVars>>

\* save_index writes into assets/, the Retriever reads
\* assets/<experiment_name>/: a file gets there by being copied.
InstallFile(name) ==
    /\ retriever.status = "none"
    /\ name \in DOMAIN assets
    /\ name \notin DOMAIN expdir
    /\ expdir' = DictPut(expdir, name, assets[name])
    /\ UNCHANGED <<assets, retriever, evaluation, fileVars, scanVars, chunkVars>>

\* Lines 102 and 106, and lines 103 and 107.
SortedEmbeddingsFiles(dir) == Sorted(Glob(dir, UNITTEST_INDEX_, DOT_PT))
SortedMappingFilesDescending(dir) ==
    SortedDescending(Glob(dir, UNITTEST_INDEX_MAPPING_, DOT_JSON))
SortedMappingFiles(dir) == Sorted(Glob(dir, UNITTEST_INDEX_MAPPING_, DOT_JSON))

\* The loop of lines 114-119: vector file i is read with mapping file i; a
\* missing mapping file i is an IndexError.
RECURSIVE LoadShards(_, _, _, _, _)
LoadShards(dir, embeddings_files, mapping_files, i, acc) ==
    IF i > Len(embeddings_files) THEN acc
    ELSE IF i > Len(mapping_files)
    THEN [acc EXCEPT !.status = "IndexError"]
    ELSE LoadShards(dir, embeddings_files, mapping_files, i + 1,
            [acc EXCEPT !.embeddings = @ \o dir[embeddings_files[i]],
                        !.unittest_names = @ \o dir[mapping_files[i]],
                        !.pairs = Append(@, <<embeddings_files[i], mapping_files[i]>>)])

\* Retriever.__init__ on a directory (lines 99-121); torch.cat of an empty
\* list raises RuntimeError.
LoadAll(dir) ==
    LET embeddings_files == SortedEmbeddingsFiles(dir)
        mapping_files == SortedMappingFiles(dir)
        r == LoadShards(dir, embeddings_files, mapping_files, 1,
                        [NotLoaded EXCEPT !.status = "loading",
                                          !.nvec = Len(embeddings_files),
                                          !.nmap = Len(mapping_files)]) IN
    IF r.status = "IndexError" THEN r
    ELSE IF Len(embeddings_files) = 0 THEN [r EXCEPT !.status = "RuntimeError"]
    ELSE [r EXCEPT !.status = "loaded"]

\* Retriever(experiment_name)
Load ==
    /\ retriever.status = "none"
    /\ retriever' = LoadAll(expdir)
    /\ UNCHANGED <<assets, expdir, evaluation, fileVars, scanVars, chunkVars>>

(***************************************************************************)
(* Retriever.evaluate_embedding                                            *)
(***************************************************************************)
\* F.cosine_similarity of one index row and one query vector: a score that
\* the two vectors determine (in tenths; the measure itself is torch's).
ScoreTable == <<4, 6, 9>>
CosineSimilarity(row, embedding) ==
    ScoreTable[((row[1] + row[2] + 2 * row[3] + embedding) % 3) + 1]

\* The query vectors of a call.
Queries == {1, 2}
MaxQueries == 2

\* The loop over the rows for one query (lines 133-138).
RECURSIVE ScoreRows(_, _, _, _, _)
ScoreRows(embeddings, unittest_names, embedding, ind, mapping) ==
    IF ind > Len(embeddings) THEN mapping
    ELSE LET test == unittest_names[ind]
             score == CosineSimilarity(embeddings[ind], embedding) IN
         ScoreRows(embeddings, unittest_names, embedding, ind + 1,
            DictPut(mapping, test,
                    Append(IF test \in DOMAIN mapping THEN mapping[test] ELSE <<>>,
                           score)))

\* The loop over the queries (lines 128-138).
RECURSIVE ScoreQueries(_, _, _, _)
ScoreQueries(embeddings, unittest_names, pooled_embeddings, mapping) ==
    IF pooled_embeddings = <<>> THEN mapping
    ELSE ScoreQueries(embeddings, unittest_names, Tail(pooled_embeddings),
            ScoreRows(embeddings, unittest_names, Head(pooled_embeddings), 1, mapping))

\* The loop over the queries with the lists started afresh for each query.
RECURSIVE ScoreQueriesAfresh(_, _, _, _)
ScoreQueriesAfresh(embeddings, unittest_names, pooled_embeddings, mapping) ==
    IF pooled_embeddings = <<>> THEN mapping
    ELSE ScoreQueriesAfresh(embeddings, unittest_names, Tail(pooled_embeddings),
            ScoreRows(embeddings, unittest_names, Head(pooled_embeddings), 1, EmptyDict))

RECURSIVE SeqSum(_)
SeqSum(q) == IF q = <<>> THEN 0 ELSE Head(q) + SeqSum(Tail(q))

RECURSIVE Gcd(_, _)
Gcd(a, b) == IF b = 0 THEN a ELSE Gcd(b, a % b)

\* sum(score) / len(score), as the fraction <<numerator, denominator>> in
\* lowest terms.
Mean(score) ==
    <<SeqSum(score) \div Gcd(SeqSum(score), Len(score)),
      Len(score) \div Gcd(SeqSum(score), Len(score))>>

\* Lines 141-142.
Condense(mapping) == [test \in DOMAIN mapping |-> Mean(mapping[test])]

EvaluateEmbeddingAfresh(embeddings, unittest_names, pooled_embeddings) ==
    IF pooled_embeddings # <<>> /\ Len(unittest_names) < Len(embeddings)
    THEN [status |-> "IndexError", queries |-> pooled_embeddings, mapping |-> EmptyDict]
    ELSE [status |-> "return", queries |-> pooled_embeddings,
          mapping |-> Condense(ScoreQueriesAfresh(embeddings, unittest_names,
                                                  pooled_embeddings, EmptyDict))]

\* evaluate_embedding; a row without a name (line 134) is an IndexError.
EvaluateEmbedding(embeddings, unittest_names, pooled_embeddings) ==
    IF pooled_embeddings # <<>> /\ Len(unittest_names) < Len(embeddings)
    THEN [status |-> "IndexError", queries |-> pooled_embeddings, mapping |-> EmptyDict]
    ELSE [status |-> "return", queries |-> pooled_embeddings,
          mapping |-> Condense(ScoreQueries(embeddings, unittest_names,
                                            pooled_embeddings, EmptyDict))]

\* retriever.evaluate_embedding(pooled_embeddings)
Evaluate(pooled_embeddings) ==
    /\ retriever.status = "loaded"
    /\ evaluation.status = "none"
    /\ evaluation' = EvaluateEmbedding(retriever.embeddings, retriever.unittest_names,
                                       pooled_embeddings)
    /\ UNCHANGED <<assets, expdir, retriever, fileVars, scanVars, chunkVars>>

NextIndex ==
    \/ \E rand \in Rands, local_rank \in Ranks, function_list \in FunctionLists :
           SaveIndex(rand, local_rank, function_list)
    \/ \E name \in DOMAIN assets : InstallFile(name)
    \/ Load
    \/ \E pooled_embeddings \in UNION {[1..n -> Queries] : n \in 0..MaxQueries} :
           Evaluate(pooled_embeddings)

SpecIndex == InitIndex /\ [][NextIndex]_vars

(***************************************************************************)
(* Claims about the index (checked under SpecIndex)                        *)
(***************************************************************************)
ShardTokens == Rands \X Ranks

\* The directory holds whole shards and nothing else: both files of every
\* shard it has a file of, as save_index wrote them.
HoldsWholeShards(dir) ==
    /\ DOMAIN dir # {}
    /\ \A name \in DOMAIN dir :
          \E t \in ShardTokens :
             /\ name \in {EmbeddingsFileName(t[1], t[2]), MappingFileName(t[1], t[2])}
             /\ EmbeddingsFileName(t[1], t[2]) \in DOMAIN dir
             /\ MappingFileName(t[1], t[2]) \in DOMAIN dir
             /\ dir[MappingFileName(t[1], t[2])] = assets[MappingFileName(t[1], t[2])]
             /\ dir[EmbeddingsFileName(t[1], t[2])] = assets[EmbeddingsFileName(t[1], t[2])]

\* C5: on a directory of whole shards, the i-th vector file is read with
\* the mapping file of the same rand_rank token; in the flat result row k
\* of embeddings and unittest_names[k] are the same row of the same shard,
\* every row of every shard is there, and the two are equally long.
C5_LoadPairsShardsByToken ==
    (retriever.status # "none" /\ HoldsWholeShards(expdir))
    => /\ retriever.status = "loaded"
       /\ Len(retriever.pairs) * 2 = Cardinality(DOMAIN expdir)
       /\ \A i \in 1..Len(retriever.pairs) :
             \E t \in ShardTokens :
                retriever.pairs[i] =
                    <<EmbeddingsFileName(t[1], t[2]), MappingFileName(t[1], t[2])>>
       /\ Len(retriever.embeddings) = Len(retriever.unittest_names)
       /\ \A k \in 1..Len(retriever.embeddings) :
             LET v == retriever.embeddings[k] IN
             retriever.unittest_names[k] = assets[MappingFileName(v[1], v[2])][v[3]]
       /\ \A t \in ShardTokens :
             MappingFileName(t[1], t[2]) \in DOMAIN expdir
             => \A row \in 1..Len(expdir[MappingFileName(t[1], t[2])]) :
                   Cardinality({k \in 1..Len(retriever.embeddings) :
                                  retriever.embeddings[k] = <<t[1], t[2], row>>}) = 1

\* C5 witness: two whole shards are loaded, with different function lists.
C5_Witness ==
    /\ retriever.status = "loaded"
    /\ HoldsWholeShards(expdir)
    /\ Len(retriever.pairs) = 2
    /\ expdir[retriever.pairs[1][2]] # expdir[retriever.pairs[2][2]]

\* C6: a directory whose numbers of vector files and of mapping files
\* differ makes the load fail, whichever of the two is the larger.
C6_ShardMismatchIsFatal ==
    (retriever.status # "none" /\ retriever.nvec # retriever.nmap)
    => retriever.status \in {"IndexError", "RuntimeError"}

\* The sum of the scores of a set of rows for query j.
RECURSIVE RowsScore(_, _, _, _)
RowsScore(embeddings, rows, queries, j) ==
    IF rows = {} THEN 0
    ELSE LET i == CHOOSE x \in rows : TRUE IN
         CosineSimilarity(embeddings[i], queries[j])
         + RowsScore(embeddings, rows \ {i}, queries, j)

\* The sum of the scores of a set of rows over the queries j, j+1, ...
RECURSIVE TotalScore(_, _, _, _)
TotalScore(embeddings, rows, queries, j) ==
    IF j > Len(queries) THEN 0
    ELSE RowsScore(embeddings, rows, queries, j)
         + TotalScore(embeddings, rows, queries, j + 1)

\* The rows of the index: the rows of the embeddings, each with its name.
RowsNamed(test) ==
    {i \in 1..Len(retriever.embeddings) : retriever.unittest_names[i] = test}

\* C7: for a non-empty list of queries, the result has every name of the
\* index rows, each with the arithmetic mean of its scores over all its
\* rows and all queries: r rows and q queries give r*q scores, equal
\* scores counted as often as they occur.
C7_MeanOverAllRowsAndQueries ==
    (evaluation.status = "return" /\ evaluation.queries # <<>>)
    => /\ DOMAIN evaluation.mapping =
             {retriever.unittest_names[i] : i \in 1..Len(retriever.embeddings)}
       /\ \A test \in DOMAIN evaluation.mapping :
             evaluation.mapping[test][1]
                * (Cardinality(RowsNamed(test)) * Len(evaluation.queries))
             = evaluation.mapping[test][2]
                * TotalScore(retriever.embeddings, RowsNamed(test),
                             evaluation.queries, 1)

\* C7 witness: rows A, A, B scoring 0.6, 0.4 and 0.9 for the one query
\* give A: 0.5, B: 0.9.
C7_Witness ==
    /\ evaluation.status = "return"
    /\ Len(evaluation.queries) = 1
    /\ retriever.unittest_names = <<"A", "A", "B">>
    /\ [i \in 1..3 |-> CosineSimilarity(retriever.embeddings[i], evaluation.queries[1])]
          = <<6, 4, 9>>
    /\ evaluation.mapping = [test \in {"A", "B"} |->
                                IF test = "A" THEN <<5, 1>> ELSE <<9, 1>>]

\* C7 witness: two rows of one name and two queries are averaged over four
\* scores, two of them equal.
C7_WitnessFourScores ==
    /\ evaluation.status = "return"
    /\ Len(evaluation.queries) = 2
    /\ Cardinality(RowsNamed("A")) = 2
    /\ evaluation.mapping["A"][2] = 4

====
